---- MODULE Spec2Model ----
(***************************************************************************)
(* Model of the cell placement optimizer: the Circuit of src/circuit.py    *)
(* (modules, pins, nets, the geometric mutators) and the LocalSearch       *)
(* driver of src/local_search.py.                                          *)
(*                                                                         *)
(* A module object is identified by its index in Circuit.modules; a pin    *)
(* object by <<module index, index in that module's pin list>>.            *)
(***************************************************************************)
EXTENDS Integers, Sequences, FiniteSets, TLC

\* ------------------------------------------------------------------------
\* Bounds of the model
\* ------------------------------------------------------------------------
\* Circuit(width, height): the region the modules are placed in.
RegionWidth == 2

RegionHeight == 2

\* Largest arguments given to to_optimal_placement.
MaxNumIterations == 2

MaxStagnation == 2

\* Most connect_module calls and most define_netlist calls of a construction.
MaxConnects == 2

MaxNets == 2

\* Circuit(width, height) of the circuits a LocalSearch is built on: a row
\* wide enough for two modules with pins to have a gap between them.
SearchWidth == 3

SearchHeight == 1

\* update_penalties is not called once a counter has reached MaxPenalty.
MaxPenalty == 2

\* The module objects connected to the circuit, in Circuit.modules order.
ModuleIds == {1, 2}

\* ------------------------------------------------------------------------
\* Program constants
\* ------------------------------------------------------------------------
PinWidth == 1

PinHeight == 1

Axes == {"X", "Y"}

Directions == {"NORTH", "EAST", "SOUTH", "WEST"}

Angles == {90, 180, 270}

VARIABLES
    modules,    \* module index -> [x, y, width, height]
    pins,       \* module index -> sequence of [dx, dy]   (module_to_pins)
    netlists,   \* sequence of nets, each a sequence of pin identities
    penalties,  \* LocalSearch.penalties: pair <<i, j>>, i < j -> counters
    last,       \* the last operation called on the circuit or the optimizer
    region,     \* Circuit.width and Circuit.height
    module_list,     \* Circuit.modules: sequence of Module objects
    module_to_pins,  \* Circuit.module_to_pins: Module object -> sequence of Pin objects
    pin_to_module    \* Circuit.pin_to_module: Pin object -> Module object

\* What Circuit.copy assigns besides the net list: the circuit's membership.
membership == <<region, module_list, module_to_pins, pin_to_module>>

vars == <<modules, pins, netlists, penalties, last, membership>>

\* ------------------------------------------------------------------------
\* helpers.py
\* ------------------------------------------------------------------------
Min(a, b) == IF a <= b THEN a ELSE b

Max(a, b) == IF a >= b THEN a ELSE b

Rectangle(x, y, width, height) == [x |-> x, y |-> y, width |-> width, height |-> height]

\* get_rectangles_overlap_area without the floor of base and height at 0.
overlap_area_without_floor(rect1, rect2) ==
    LET end_x1 == rect1.x + rect1.width
        end_y1 == rect1.y + rect1.height
        end_x2 == rect2.x + rect2.width
        end_y2 == rect2.y + rect2.height
        base   == Min(end_x1, end_x2) - Max(rect1.x, rect2.x)
        height == Min(end_y1, end_y2) - Max(rect1.y, rect2.y)
    IN  base * height

get_rectangles_overlap_area(rect1, rect2) ==
    LET end_x1 == rect1.x + rect1.width
        end_y1 == rect1.y + rect1.height
        end_x2 == rect2.x + rect2.width
        end_y2 == rect2.y + rect2.height
        base   == Min(end_x1, end_x2) - Max(rect1.x, rect2.x)
        height == Min(end_y1, end_y2) - Max(rect1.y, rect2.y)
    IN  Max(base, 0) * Max(height, 0)

\* ------------------------------------------------------------------------
\* circuit.py: Direction
\* ------------------------------------------------------------------------
is_vertical(direction) == direction = "NORTH" \/ direction = "SOUTH"

is_horizontal(direction) == direction = "EAST" \/ direction = "WEST"

is_positive(direction) == direction = "NORTH" \/ direction = "EAST"

is_negative(direction) == direction = "SOUTH" \/ direction = "WEST"

\* ------------------------------------------------------------------------
\* circuit.py: Circuit queries
\* A circuit c is [modules |-> ..., pins |-> ...]; Module and Pin objects are
\* told apart from each other, as Python tells them apart, by their class.
\* ------------------------------------------------------------------------
ModuleObject(i) == <<"Module", i, 0>>

PinObject(m, k) == <<"Pin", m, k>>

num_modules == Cardinality(ModuleIds)

get_pins_overlap_area(pin1, pin2) ==
    get_rectangles_overlap_area(Rectangle(pin1.dx, pin1.dy, PinWidth, PinHeight),
                                Rectangle(pin2.dx, pin2.dy, PinWidth, PinHeight))

get_modules_overlap_area(c, m1, m2) ==
    get_rectangles_overlap_area(
        Rectangle(c.modules[m1].x, c.modules[m1].y,
                  c.modules[m1].width, c.modules[m1].height),
        Rectangle(c.modules[m2].x, c.modules[m2].y,
                  c.modules[m2].width, c.modules[m2].height))

is_feasible(c) ==
    \A i \in ModuleIds : \A j \in ModuleIds :
        i < j => ~(get_modules_overlap_area(c, i, j) > 0)

get_modules_distance_per_axis(c, m1, m2) ==
    LET module1 == c.modules[m1]
        module2 == c.modules[m2]
        dx == Max(module1.x - (module2.x + module2.width),
                  module2.x - (module1.x + module1.width))
        dy == Max(module1.y - (module2.y + module2.height),
                  module2.y - (module1.y + module1.height))
    IN  [dx |-> Max(dx, 0), dy |-> Max(dy, 0)]

\* ------------------------------------------------------------------------
\* circuit.py: reflect_module
\* ------------------------------------------------------------------------
\* reflect_pin with the X branch mirroring dy from dx.
reflect_pin_from_other_offset(module, pin, axis) ==
    IF axis = "X"
    THEN [pin EXCEPT !.dy = module.height - (pin.dx + PinHeight)]
    ELSE [pin EXCEPT !.dx = module.width - (pin.dy + PinWidth)]

\* The body of the loop over the module's pins.
reflect_pin(module, pin, axis) ==
    IF axis = "X"
    THEN [pin EXCEPT !.dy = module.height - (pin.dy + PinHeight)]
    ELSE [pin EXCEPT !.dx = module.width - (pin.dx + PinWidth)]

reflect_module(c, m, axis) ==
    [c EXCEPT !.pins[m] =
        [k \in 1..Len(c.pins[m]) |-> reflect_pin(c.modules[m], c.pins[m][k], axis)]]

\* ------------------------------------------------------------------------
\* circuit.py: translate_module_until_collision
\* ------------------------------------------------------------------------
translate_module(c, m, direction, distance) ==
    LET d == IF is_positive(direction) THEN distance ELSE -distance
    IN  IF is_vertical(direction)
        THEN [c EXCEPT !.modules[m].y = c.modules[m].y + d]
        ELSE [c EXCEPT !.modules[m].x = c.modules[m].x + d]

\* get_module_distance_until_boundary without the module's own extent.
distance_until_boundary_ignoring_size(module, direction) ==
    CASE direction = "NORTH" -> RegionHeight - module.y
      [] direction = "EAST"  -> RegionWidth - module.x
      [] direction = "SOUTH" -> module.y
      [] direction = "WEST"  -> module.x

get_module_distance_until_boundary(module, direction) ==
    CASE direction = "NORTH" -> RegionHeight - (module.y + module.height)
      [] direction = "EAST"  -> RegionWidth - (module.x + module.width)
      [] direction = "SOUTH" -> module.y
      [] direction = "WEST"  -> module.x

\* The distance the loop body of get_module_distance_until_collision assigns
\* for module2: 0 unless module2 is in the band perpendicular to direction.
collision_distance(module1, module2, direction) ==
    IF is_vertical(direction)
    THEN IF module1.x < module2.x + module2.width
            /\ module2.x < module1.x + module1.width
         THEN IF is_positive(direction)
              THEN module2.y - (module1.y + module1.height)
              ELSE module1.y - (module2.y + module2.height)
         ELSE 0
    ELSE IF module1.y < module2.y + module2.height
            /\ module2.y < module1.y + module1.height
         THEN IF is_positive(direction)
              THEN module2.x - (module1.x + module1.width)
              ELSE module1.x - (module2.x + module2.width)
         ELSE 0

\* The loop over self.modules, module1 itself included, from index i on.
RECURSIVE scan_modules(_, _, _, _, _)
scan_modules(c, m1, direction, i, min_distance) ==
    IF i > num_modules
    THEN min_distance
    ELSE LET distance == collision_distance(c.modules[m1], c.modules[i], direction)
         IN  scan_modules(c, m1, direction, i + 1,
                          IF distance > 0
                          THEN Min(min_distance, distance)
                          ELSE min_distance)

get_module_distance_until_collision(c, m1, direction) ==
    scan_modules(c, m1, direction, 1,
                 get_module_distance_until_boundary(c.modules[m1], direction))

translate_module_until_collision(c, m, direction) ==
    translate_module(c, m, direction,
                     get_module_distance_until_collision(c, m, direction))

\* ------------------------------------------------------------------------
\* circuit.py: rotate_module_cw
\* ------------------------------------------------------------------------
\* rotation_step_fits with the swapped rectangle kept strictly inside the
\* far edges of the region (< for <=).
rotation_step_fits_strictly(module) ==
    /\ 0 <= module.x + module.height
    /\ module.x + module.height < RegionWidth
    /\ 0 <= module.y + module.width
    /\ module.y + module.width < RegionHeight

\* rotation_step_fits without the test on the vertical extent.
rotation_step_fits_width_only(module) ==
    /\ 0 <= module.x + module.height
    /\ module.x + module.height <= RegionWidth

\* The test of one elementary step: the swapped rectangle stays in the region.
rotation_step_fits(module) ==
    /\ 0 <= module.x + module.height
    /\ module.x + module.height <= RegionWidth
    /\ 0 <= module.y + module.width
    /\ module.y + module.width <= RegionHeight

rotate_pin(module, pin) ==
    [dx |-> pin.dy, dy |-> module.width - (pin.dx + PinWidth)]

\* rotate_step assigning width, then height from the width just assigned.
rotate_step_sequential_swap(c, m) ==
    [c EXCEPT !.pins[m] = [k \in 1..Len(c.pins[m]) |->
                              rotate_pin(c.modules[m], c.pins[m][k])],
              !.modules[m].width = c.modules[m].height,
              !.modules[m].height = c.modules[m].height]

\* The then branch of one pass of the loop: the pins, then the dimensions.
rotate_step(c, m) ==
    [c EXCEPT !.pins[m] = [k \in 1..Len(c.pins[m]) |->
                              rotate_pin(c.modules[m], c.pins[m][k])],
              !.modules[m].width = c.modules[m].height,
              !.modules[m].height = c.modules[m].width]

\* The else branch: module and pins are copied back from module0 and pins0,
\* the deep copies taken before the loop (c0 is the circuit at that point).
rotation_rollback(c0, c, m) ==
    [c EXCEPT !.modules[m] = c0.modules[m], !.pins[m] = c0.pins[m]]

RECURSIVE rotate_steps(_, _, _, _)
rotate_steps(c0, c, m, steps) ==
    IF steps = 0
    THEN c
    ELSE IF rotation_step_fits(c.modules[m])
         THEN rotate_steps(c0, rotate_step(c, m), m, steps - 1)
         ELSE rotation_rollback(c0, c, m)

rotate_module_cw(c, m, angle) == rotate_steps(c, c, m, angle \div 90)

\* ------------------------------------------------------------------------
\* local_search.py: LocalSearch
\* ------------------------------------------------------------------------
ModulePairs == {pair \in ModuleIds \X ModuleIds : pair[1] < pair[2]}

PenaltyFeatures == [overlap |-> 0, connection_x |-> 0, connection_y |-> 0]

_init_modules_pairs_dict(default_value) == [pair \in ModulePairs |-> default_value]

\* Sum of the values of a function with a finite domain.
RECURSIVE SumFn(_)
SumFn(f) ==
    IF DOMAIN f = {}
    THEN 0
    ELSE LET x == CHOOSE y \in DOMAIN f : TRUE
         IN  f[x] + SumFn([y \in DOMAIN f \ {x} |-> f[y]])

SetMin(S) == CHOOSE x \in S : \A y \in S : x <= y

SetMax(S) == CHOOSE x \in S : \A y \in S : x >= y

\* circuit.py: netlist[i] is the net's i-th Pin, so the pairs define_netlist
\* adds to connected_modules_pairs are pairs of Pin objects.
define_netlist(netlist) ==
    UNION {{<<netlist[i], netlist[j]>>, <<netlist[j], netlist[i]>>} :
           <<i, j>> \in {p \in (1..Len(netlist)) \X (1..Len(netlist)) : p[1] < p[2]}}

connected_modules_pairs(nets) == UNION {define_netlist(nets[n]) : n \in 1..Len(nets)}

\* _get_netlist_bounding_box taking the start of a pin for its end.
bounding_box_of_pin_starts(c, netlist) ==
    LET start_x(p) == c.modules[p[2]].x + c.pins[p[2]][p[3]].dx
        start_y(p) == c.modules[p[2]].y + c.pins[p[2]][p[3]].dy
        idx   == 1..Len(netlist)
        min_x == SetMin({c.width} \cup {start_x(netlist[i]) : i \in idx})
        min_y == SetMin({c.height} \cup {start_y(netlist[i]) : i \in idx})
        max_x == SetMax({0} \cup {start_x(netlist[i]) : i \in idx})
        max_y == SetMax({0} \cup {start_y(netlist[i]) : i \in idx})
    IN  (max_x - min_x) + (max_y - min_y)

\* circuit.py: a pin object <<"Pin", m, k>> is the k-th pin of module m.
_get_netlist_bounding_box(c, netlist) ==
    LET start_x(p) == c.modules[p[2]].x + c.pins[p[2]][p[3]].dx
        start_y(p) == c.modules[p[2]].y + c.pins[p[2]][p[3]].dy
        idx   == 1..Len(netlist)
        min_x == SetMin({c.width} \cup {start_x(netlist[i]) : i \in idx})
        min_y == SetMin({c.height} \cup {start_y(netlist[i]) : i \in idx})
        max_x == SetMax({0} \cup {start_x(netlist[i]) + PinWidth : i \in idx})
        max_y == SetMax({0} \cup {start_y(netlist[i]) + PinHeight : i \in idx})
    IN  (max_x - min_x) + (max_y - min_y)

get_bounding_boxes_total(c, nets) ==
    SumFn([n \in 1..Len(nets) |-> _get_netlist_bounding_box(c, nets[n])])

objective_func(c, nets) ==
    get_bounding_boxes_total(c, nets)
        + SumFn([pair \in ModulePairs |-> get_modules_overlap_area(c, pair[1], pair[2])])

\* The sum of the module areas: get_avg_module_area times num_modules.  No
\* mutator changes it, so it is what __init__ measured.
total_module_area(c) ==
    SumFn([m \in ModuleIds |-> c.modules[m].width * c.modules[m].height])

\* augmented_objective_func times 10 * num_modules, which keeps it an integer:
\* penalties_weight is (total_module_area / num_modules) / 10.
augmented_objective_func(c, nets, pen) ==
    LET pair_term(pair) ==
            LET overlap_area == get_modules_overlap_area(c, pair[1], pair[2])
                overlap_penalty ==
                    IF overlap_area > 0 THEN pen[pair].overlap ELSE 0
                distance == get_modules_distance_per_axis(c, pair[1], pair[2])
                connection_penalty ==
                    IF <<ModuleObject(pair[1]), ModuleObject(pair[2])>>
                           \in connected_modules_pairs(nets)
                    THEN (IF distance.dx > 0 THEN pen[pair].connection_x ELSE 0)
                         + (IF distance.dy > 0 THEN pen[pair].connection_y ELSE 0)
                    ELSE 0
            IN  10 * num_modules * overlap_area
                    + total_module_area(c) * (overlap_penalty + connection_penalty)
    IN  10 * num_modules * get_bounding_boxes_total(c, nets)
            + SumFn([pair \in ModulePairs |-> pair_term(pair)])

\* A utility is a quotient of two integers, kept as [num, den] with den > 0;
\* the floats Python computes for two such quotients of small integers are
\* equal exactly when the quotients are.
Quotient(num, den) == [num |-> num, den |-> den]

QuotientEq(u, v) == u.num * v.den = v.num * u.den

QuotientLeq(u, v) == u.num * v.den <= v.num * u.den

UtilityFeatures ==
    [overlap |-> Quotient(0, 1), connection_x |-> Quotient(0, 1),
     connection_y |-> Quotient(0, 1)]

\* The first double loop of update_penalties: utilities[pair].
pair_utilities(c, nets, pen, pair) ==
    LET overlap_area == get_modules_overlap_area(c, pair[1], pair[2])
        overlap_cost == overlap_area
                            + c.modules[pair[1]].width * c.modules[pair[1]].height
                            + c.modules[pair[2]].width * c.modules[pair[2]].height
        in_pairs == <<ModuleObject(pair[1]), ModuleObject(pair[2])>>
                        \in connected_modules_pairs(nets)
        distance == get_modules_distance_per_axis(c, pair[1], pair[2])
    IN  [overlap |->
             IF overlap_area > 0
             THEN Quotient(overlap_cost, 1 + pen[pair].overlap)
             ELSE UtilityFeatures.overlap,
         connection_x |->
             IF in_pairs /\ distance.dx > 0
             THEN Quotient(distance.dx, 1 + pen[pair].connection_x)
             ELSE UtilityFeatures.connection_x,
         connection_y |->
             IF in_pairs /\ distance.dy > 0
             THEN Quotient(distance.dy, 1 + pen[pair].connection_y)
             ELSE UtilityFeatures.connection_y]

any_overlap(c) ==
    \E pair \in ModulePairs : get_modules_overlap_area(c, pair[1], pair[2]) > 0

\* max_utility: the greatest of 0. and the utilities of all pairs.
max_utility(c, nets, pen) ==
    LET all == {Quotient(0, 1)}
                   \cup UNION {{pair_utilities(c, nets, pen, pair).overlap,
                                pair_utilities(c, nets, pen, pair).connection_x,
                                pair_utilities(c, nets, pen, pair).connection_y} :
                               pair \in ModulePairs}
    IN  CHOOSE u \in all : \A v \in all : QuotientLeq(v, u)

\* The penalties update_penalties leaves.
update_penalties(c, nets, pen) ==
    LET highest == max_utility(c, nets, pen)
        base    == IF any_overlap(c)
                   THEN pen
                   ELSE _init_modules_pairs_dict(PenaltyFeatures)
        bump(u) == IF QuotientEq(u, highest) THEN 1 ELSE 0
    IN  [pair \in ModulePairs |->
            LET u == pair_utilities(c, nets, pen, pair)
            IN  [overlap |-> base[pair].overlap + bump(u.overlap),
                 connection_x |-> base[pair].connection_x + bump(u.connection_x),
                 connection_y |-> base[pair].connection_y + bump(u.connection_y)]]

\* The circuits the candidate actions of module m lead to: actions_funcs[m].
action_results(c, m) ==
    {reflect_module(c, m, axis) : axis \in Axes}
        \cup {translate_module_until_collision(c, m, direction) : direction \in Directions}
        \cup {rotate_module_cw(c, m, angle) : angle \in Angles}

\* to_local_optimum_placement taking the pin list of the first module out of
\* module_to_pins (a pop for the lookup) before it raises.
to_local_optimum_placement_popping_pins(c) ==
    [exc |-> "AttributeError",
     circuit |-> [c EXCEPT !.pins = [m \in ModuleIds |->
                                        IF m = 1 THEN <<>> ELSE c.pins[m]]],
     values |-> <<>>]

\* The outcome of one call: the exception that left it ("none" when it
\* returned), the circuit it leaves, and the augmented objective values of
\* the moves it committed.  A LocalSearch has at least one module
\* (__init__ divides by num_modules), so the while loop is entered, and the
\* first pass of its for loop evaluates self.circuit.modules_pins, which no
\* Circuit has (the maps are module_to_pins and pin_to_module): the
\* AttributeError leaves the call before any action was tried.
to_local_optimum_placement(c) ==
    [exc |-> "AttributeError", circuit |-> c, values |-> <<>>]

\* The outcome of one call: values are the plain objectives measured after
\* each local-optimum pass.  The first pass is the first statement of the
\* loop, and nothing catches what it raises.
to_optimal_placement(c, max_num_iterations, max_stagnation) ==
    LET pass == to_local_optimum_placement(c)
    IN  [exc |-> pass.exc, circuit |-> pass.circuit, values |-> <<>>]

\* ------------------------------------------------------------------------
\* Construction: Module(...), Pin(...), connect_module
\* ------------------------------------------------------------------------
\* Module.__init__ and connect_module accept a module that lies in the region.
ModuleRecords ==
    {r \in [x : 0..RegionWidth, y : 0..RegionHeight,
            width : 0..RegionWidth, height : 0..RegionHeight] :
        /\ r.x + r.width <= RegionWidth
        /\ r.y + r.height <= RegionHeight}

PinRecords == [dx : 0..RegionWidth, dy : 0..RegionHeight]

\* connect_module's assertion on a pin (Pin.__init__ asserts dx, dy >= 0).
pin_fits(module, pin) ==
    /\ 0 <= pin.dx + PinWidth
    /\ pin.dx + PinWidth <= module.width
    /\ 0 <= pin.dy + PinHeight
    /\ pin.dy + PinHeight <= module.height

\* The pin lists connect_module is given for a module: no pin, or one pin
\* inside the module.  reflect_module and rotate_module_cw map every pin on
\* its own, from the module and that pin alone, so a second pin of a module
\* would add no behaviour of theirs.
PinLists(module) ==
    {<<>>} \cup {<<pin>> : pin \in {q \in PinRecords : pin_fits(module, q)}}

\* A module as connect_module registers it, with its pin list.
Placements ==
    UNION {{[module |-> r, pins |-> ps] : ps \in PinLists(r)} : r \in ModuleRecords}

\* One net over the first pin of every module that has pins.
RECURSIVE FirstPins(_, _)
FirstPins(ps, i) ==
    IF i > num_modules
    THEN <<>>
    ELSE (IF Len(ps[i]) > 0 THEN <<PinObject(i, 1)>> ELSE <<>>) \o FirstPins(ps, i + 1)

\* last: the operation called last (op), the module it was called on (m, 0
\* for an optimizer call), the exception that left it (exc, "none" when it
\* returned) and, for an optimizer call, the objective values it recorded.
NoCall == [op |-> "none", m |-> 0, exc |-> "none", values |-> <<>>]

Circuit ==
    [width |-> region.width, height |-> region.height,
     modules |-> modules, pins |-> pins]

\* Circuit(width, height) followed by one connect_module call per module, each
\* with the Pin objects made for that module.
connected(ps) ==
    [module_list |-> [i \in ModuleIds |-> ModuleObject(i)],
     module_to_pins |-> [o \in {ModuleObject(i) : i \in ModuleIds} |->
                            [k \in 1..Len(ps[o[2]]) |-> PinObject(o[2], k)]],
     pin_to_module |-> [p \in UNION {{PinObject(i, k) : k \in 1..Len(ps[i])} :
                                       i \in ModuleIds} |-> ModuleObject(p[2])]]

Init ==
    /\ \E placed \in [ModuleIds -> Placements] :
           /\ modules = [m \in ModuleIds |-> placed[m].module]
           /\ pins = [m \in ModuleIds |-> placed[m].pins]
    /\ netlists = IF FirstPins(pins, 1) = <<>> THEN <<>> ELSE <<FirstPins(pins, 1)>>
    /\ penalties = _init_modules_pairs_dict(PenaltyFeatures)
    /\ last = NoCall
    /\ region = [width |-> RegionWidth, height |-> RegionHeight]
    /\ module_list = connected(pins).module_list
    /\ module_to_pins = connected(pins).module_to_pins
    /\ pin_to_module = connected(pins).pin_to_module

\* ------------------------------------------------------------------------
\* Operations
\* ------------------------------------------------------------------------
ReflectModule(m, axis) ==
    LET c == reflect_module(Circuit, m, axis)
    IN  /\ modules' = c.modules
        /\ pins' = c.pins
        /\ last' = [NoCall EXCEPT !.op = "reflect_module", !.m = m]
        /\ UNCHANGED <<netlists, penalties, membership>>

TranslateModuleUntilCollision(m, direction) ==
    LET c == translate_module_until_collision(Circuit, m, direction)
    IN  /\ modules' = c.modules
        /\ pins' = c.pins
        /\ last' = [NoCall EXCEPT !.op = "translate_module_until_collision", !.m = m]
        /\ UNCHANGED <<netlists, penalties, membership>>

RotateModuleCw(m, angle) ==
    LET c == rotate_module_cw(Circuit, m, angle)
    IN  /\ modules' = c.modules
        /\ pins' = c.pins
        /\ last' = [NoCall EXCEPT !.op = "rotate_module_cw", !.m = m]
        /\ UNCHANGED <<netlists, penalties, membership>>

ToLocalOptimumPlacement ==
    LET r == to_local_optimum_placement(Circuit)
    IN  /\ modules' = r.circuit.modules
        /\ pins' = r.circuit.pins
        /\ last' = [NoCall EXCEPT !.op = "to_local_optimum_placement",
                                  !.exc = r.exc, !.values = r.values]
        /\ UNCHANGED <<netlists, penalties, membership>>

ToOptimalPlacement(max_num_iterations, max_stagnation) ==
    LET r == to_optimal_placement(Circuit, max_num_iterations, max_stagnation)
    IN  /\ modules' = r.circuit.modules
        /\ pins' = r.circuit.pins
        /\ last' = [NoCall EXCEPT !.op = "to_optimal_placement",
                                  !.exc = r.exc, !.values = r.values]
        /\ UNCHANGED <<netlists, penalties, membership>>

Next ==
    \/ \E m \in ModuleIds : \E axis \in Axes : ReflectModule(m, axis)
    \/ \E m \in ModuleIds : \E direction \in Directions :
           TranslateModuleUntilCollision(m, direction)
    \/ \E m \in ModuleIds : \E angle \in Angles : RotateModuleCw(m, angle)
    \/ ToLocalOptimumPlacement
    \/ \E max_num_iterations \in 1..MaxNumIterations :
           \E max_stagnation \in 1..MaxStagnation :
               ToOptimalPlacement(max_num_iterations, max_stagnation)

Spec == Init /\ [][Next]_vars

\* ------------------------------------------------------------------------
\* The queries of a constructed circuit
\* ------------------------------------------------------------------------
\* values: the two modules asked about and the area returned.
GetModulesOverlapArea(module1, module2) ==
    /\ last' = [NoCall EXCEPT
                    !.op = "get_modules_overlap_area",
                    !.values = <<module1, module2,
                                 get_modules_overlap_area(Circuit, module1, module2)>>]
    /\ UNCHANGED <<modules, pins, netlists, penalties, membership>>

\* values: the index of the net in Circuit.netlists and its half-perimeter.
GetNetlistBoundingBox(n) ==
    /\ last' = [NoCall EXCEPT
                    !.op = "_get_netlist_bounding_box",
                    !.values = <<n, _get_netlist_bounding_box(Circuit, netlists[n])>>]
    /\ UNCHANGED <<modules, pins, netlists, penalties, membership>>

IsFeasible ==
    /\ last' = [NoCall EXCEPT !.op = "is_feasible", !.values = <<is_feasible(Circuit)>>]
    /\ UNCHANGED <<modules, pins, netlists, penalties, membership>>

NextQueries ==
    \/ \E module1 \in ModuleIds : \E module2 \in ModuleIds :
           GetModulesOverlapArea(module1, module2)
    \/ \E n \in 1..Len(netlists) : GetNetlistBoundingBox(n)
    \/ IsFeasible

SpecQueries == Init /\ [][NextQueries]_vars

\* ------------------------------------------------------------------------
\* circuit.py: the construction of a circuit, call by call
\* The Module objects ModuleObject(i) and the Pin objects PinObject(i, k)
\* exist before they are connected: modules[i] and pins[i][k] hold their
\* fields.  connect_module and define_netlist take any of them.
\* ------------------------------------------------------------------------
\* A dict after d[key] = value.
DictSet(d, key, value) ==
    [k \in DOMAIN d \cup {key} |-> IF k = key THEN value ELSE d[k]]

PinFields(ps, p) == ps[p[2]][p[3]]

\* The loop over pins of connect_module from its i-th pin on: the assertions
\* on the pin, then pin_to_module[pin] = module.  An assertion that fails
\* leaves the entries of the pins before it.
RECURSIVE map_pins(_, _, _, _, _, _)
map_pins(p2m, ms, ps, m, pinlist, i) ==
    IF i > Len(pinlist)
    THEN [exc |-> "none", pin_to_module |-> p2m]
    ELSE IF pin_fits(ms[m], PinFields(ps, pinlist[i]))
         THEN map_pins(DictSet(p2m, pinlist[i], ModuleObject(m)), ms, ps, m, pinlist, i + 1)
         ELSE [exc |-> "AssertionError", pin_to_module |-> p2m]

\* The double loop of connect_module: no two of the pins overlap.
pins_do_not_overlap(ps, pinlist) ==
    \A i \in 1..Len(pinlist) : \A j \in 1..Len(pinlist) :
        i < j => get_pins_overlap_area(PinFields(ps, pinlist[i]),
                                       PinFields(ps, pinlist[j])) = 0

\* connect_module(ModuleObject(m), pinlist) on the circuit whose membership is
\* mem: the exception that leaves the call ("none" when it returns) and the
\* membership it leaves.
connect_module(reg, mem, ms, ps, m, pinlist) ==
    IF ~(/\ 0 <= ms[m].x + ms[m].width /\ ms[m].x + ms[m].width <= reg.width
         /\ 0 <= ms[m].y + ms[m].height /\ ms[m].y + ms[m].height <= reg.height)
    THEN [mem EXCEPT !.exc = "AssertionError"]
    ELSE LET m2p    == DictSet(mem.module_to_pins, ModuleObject(m), pinlist)
             mapped == map_pins(mem.pin_to_module, ms, ps, m, pinlist, 1)
         IN  IF mapped.exc # "none" \/ ~pins_do_not_overlap(ps, pinlist)
             THEN [exc |-> "AssertionError", module_list |-> mem.module_list,
                   module_to_pins |-> m2p, pin_to_module |-> mapped.pin_to_module]
             ELSE [exc |-> "none",
                   module_list |-> Append(mem.module_list, ModuleObject(m)),
                   module_to_pins |-> m2p, pin_to_module |-> mapped.pin_to_module]

\* The Pin objects that exist, and the lists of at most two of them.
PinObjects(ps) == UNION {{PinObject(i, k) : k \in 1..Len(ps[i])} : i \in ModuleIds}

PinObjectLists(S) == UNION {[1..n -> S] : n \in 0..2}

\* Circuit.__init__: no module, no pin, no net; no LocalSearch yet.
InitConnect ==
    /\ \E placed \in [ModuleIds -> Placements] :
           /\ modules = [m \in ModuleIds |-> placed[m].module]
           /\ pins = [m \in ModuleIds |-> placed[m].pins]
    /\ netlists = <<>>
    /\ penalties = <<>>
    /\ last = NoCall
    /\ region = [width |-> RegionWidth, height |-> RegionHeight]
    /\ module_list = <<>>
    /\ module_to_pins = <<>>
    /\ pin_to_module = <<>>

\* A failed assertion is fatal: no call follows it.
ConnectModule(m, pinlist) ==
    /\ last.exc = "none"
    /\ Len(module_list) < MaxConnects
    /\ LET r == connect_module(region,
                               [exc |-> "none", module_list |-> module_list,
                                module_to_pins |-> module_to_pins,
                                pin_to_module |-> pin_to_module],
                               modules, pins, m, pinlist)
       IN  /\ module_list' = r.module_list
           /\ module_to_pins' = r.module_to_pins
           /\ pin_to_module' = r.pin_to_module
           /\ last' = [NoCall EXCEPT !.op = "connect_module", !.m = m, !.exc = r.exc]
    /\ UNCHANGED <<modules, pins, netlists, penalties, region>>

\* define_netlist(Netlist(net)), the net over pins already connected.
DefineNetlist(net) ==
    /\ last.exc = "none"
    /\ Len(netlists) < MaxNets
    /\ Len(net) > 0
    /\ netlists' = Append(netlists, net)
    /\ last' = [NoCall EXCEPT !.op = "define_netlist"]
    /\ UNCHANGED <<modules, pins, penalties, membership>>

NextConnect ==
    \/ \E m \in ModuleIds : \E pinlist \in PinObjectLists(PinObjects(pins)) :
           ConnectModule(m, pinlist)
    \/ \E net \in PinObjectLists(DOMAIN pin_to_module) : DefineNetlist(net)

SpecConnect == InitConnect /\ [][NextConnect]_vars

\* ------------------------------------------------------------------------
\* local_search.py: the operations of a LocalSearch
\* ------------------------------------------------------------------------
\* The modules and pin lists connect_module accepts in Circuit(SearchWidth,
\* SearchHeight).
SearchModuleRecords ==
    {r \in [x : 0..SearchWidth, y : 0..SearchHeight,
            width : 0..SearchWidth, height : 0..SearchHeight] :
        /\ r.x + r.width <= SearchWidth
        /\ r.y + r.height <= SearchHeight}

SearchPinLists(module) ==
    {<<>>} \cup {<<pin>> : pin \in {q \in [dx : 0..SearchWidth, dy : 0..SearchHeight] :
                                      pin_fits(module, q)}}

SearchPlacements ==
    UNION {{[module |-> r, pins |-> ps] : ps \in SearchPinLists(r)} :
           r \in SearchModuleRecords}

\* LocalSearch(circuit), the circuit built as in Init.
InitSearch ==
    /\ \E placed \in [ModuleIds -> SearchPlacements] :
           /\ modules = [m \in ModuleIds |-> placed[m].module]
           /\ pins = [m \in ModuleIds |-> placed[m].pins]
    /\ netlists = IF FirstPins(pins, 1) = <<>> THEN <<>> ELSE <<FirstPins(pins, 1)>>
    /\ penalties = _init_modules_pairs_dict(PenaltyFeatures)
    /\ last = NoCall
    /\ region = [width |-> SearchWidth, height |-> SearchHeight]
    /\ module_list = connected(pins).module_list
    /\ module_to_pins = connected(pins).module_to_pins
    /\ pin_to_module = connected(pins).pin_to_module

\* values: the value returned.
ObjectiveFunc ==
    /\ last' = [NoCall EXCEPT !.op = "objective_func",
                              !.values = <<objective_func(Circuit, netlists)>>]
    /\ UNCHANGED <<modules, pins, netlists, penalties, membership>>

\* values: the value returned, times 10 * num_modules.
AugmentedObjectiveFunc ==
    /\ last' = [NoCall EXCEPT
                    !.op = "augmented_objective_func",
                    !.values = <<augmented_objective_func(Circuit, netlists, penalties)>>]
    /\ UNCHANGED <<modules, pins, netlists, penalties, membership>>

\* values: the penalties before the call.
UpdatePenalties ==
    /\ \A pair \in ModulePairs :
           /\ penalties[pair].overlap < MaxPenalty
           /\ penalties[pair].connection_x < MaxPenalty
           /\ penalties[pair].connection_y < MaxPenalty
    /\ penalties' = update_penalties(Circuit, netlists, penalties)
    /\ last' = [NoCall EXCEPT !.op = "update_penalties", !.values = <<penalties>>]
    /\ UNCHANGED <<modules, pins, netlists, membership>>

NextSearch ==
    \/ ObjectiveFunc
    \/ AugmentedObjectiveFunc
    \/ UpdatePenalties
    \/ ToLocalOptimumPlacement
    \/ \E max_num_iterations \in 1..MaxNumIterations :
           \E max_stagnation \in 1..MaxStagnation :
               ToOptimalPlacement(max_num_iterations, max_stagnation)

SpecSearch == InitSearch /\ [][NextSearch]_vars

\* ------------------------------------------------------------------------
\* Properties
\* ------------------------------------------------------------------------
module_in_region(module) ==
    /\ 0 <= module.x
    /\ module.x <= RegionWidth - module.width
    /\ 0 <= module.y
    /\ module.y <= RegionHeight - module.height

pin_in_module(module, pin) ==
    /\ pin.dx >= 0
    /\ pin.dy >= 0
    /\ pin.dx + 1 <= module.width
    /\ pin.dy + 1 <= module.height

\* The rectangle of module after k elementary clockwise steps exits the region.
StepExits(module, k) ==
    LET w == IF k % 2 = 0 THEN module.width ELSE module.height
        h == IF k % 2 = 0 THEN module.height ELSE module.width
    IN  \/ module.x + w > RegionWidth
        \/ module.y + h > RegionHeight

SomeStepExits(module, angle) == \E k \in 1..(angle \div 90) : StepExits(module, k)

\* c is c0 after n calls of rotate_module_cw(m, 90): the calls still to come,
\* up to the fourth, leave x and y of module m alone, and the fourth gives
\* back the width, the height and the pin offsets m has in c0.
RECURSIVE RoundTripFrom(_, _, _, _)
RoundTripFrom(c0, c, m, n) ==
    /\ c.modules[m].x = c0.modules[m].x
    /\ c.modules[m].y = c0.modules[m].y
    /\ IF n = 4
       THEN /\ c.modules[m].width = c0.modules[m].width
            /\ c.modules[m].height = c0.modules[m].height
            /\ c.pins[m] = c0.pins[m]
       ELSE RoundTripFrom(c0, rotate_module_cw(c, m, 90), m, n + 1)

\* C1: after any sequence of reflect, translate-until-collision and rotate
\* calls, every module lies inside the region and every pin inside its module.
C1_Containment ==
    \A m \in ModuleIds :
        /\ module_in_region(modules[m])
        /\ \A k \in 1..Len(pins[m]) : pin_in_module(modules[m], pins[m][k])

\* A module with a pin, wider than high, was just rotated and now touches
\* the right edge of the region.
C1_Witness ==
    /\ last.op = "rotate_module_cw"
    /\ Len(pins[last.m]) > 0
    /\ modules[last.m].width > modules[last.m].height
    /\ modules[last.m].x + modules[last.m].width = RegionWidth

\* C2: in every state the circuit reaches, a rotate_module_cw call one of
\* whose elementary steps would take the module out of the region leaves
\* every module and every pin as it was.
C2_RotationRollback ==
    \A m \in ModuleIds : \A angle \in Angles :
        SomeStepExits(modules[m], angle)
            => rotate_module_cw(Circuit, m, angle) = Circuit

\* rotate_module_cw was just called on a module with a pin whose first
\* elementary step exits the region.
C2_Witness ==
    /\ last.op = "rotate_module_cw"
    /\ Len(pins[last.m]) > 0
    /\ StepExits(modules[last.m], 1)

\* C3: in every state the circuit reaches, when four successive 90-degree
\* rotations of a module are each feasible, four rotate_module_cw(m, 90)
\* calls restore its width, height and pin offsets, and none of them changes
\* x or y.
C3_RotationRoundTrip ==
    \A m \in ModuleIds :
        (\A k \in 1..4 : ~StepExits(modules[m], k))
            => RoundTripFrom(Circuit, Circuit, m, 0)

\* A module that is not square, with a pin away from its corner, was just
\* rotated and can be rotated again.
C3_Witness ==
    /\ last.op = "rotate_module_cw"
    /\ modules[last.m].width # modules[last.m].height
    /\ Len(pins[last.m]) > 0
    /\ pins[last.m][1].dx + pins[last.m][1].dy > 0
    /\ \A k \in 1..4 : ~StepExits(modules[last.m], k)

\* C4: in every state the circuit reaches, reflect_module called twice in a
\* row on the same module and axis restores every pin offset of the module.
C4_ReflectionInvolution ==
    \A m \in ModuleIds : \A axis \in Axes :
        reflect_module(reflect_module(Circuit, m, axis), m, axis).pins[m] = pins[m]

\* A module at least two wide and two high, with a pin, was just reflected.
C4_Witness ==
    /\ last.op = "reflect_module"
    /\ Len(pins[last.m]) > 0
    /\ modules[last.m].width >= 2
    /\ modules[last.m].height >= 2

\* C5: after translate_module_until_collision(m, d), m has zero overlap area
\* with every other module in the band perpendicular to d.  Two rectangles
\* of positive overlap area overlap in their projection on both axes, so the
\* other module is in the band of every direction.
C5_TranslationNeverOverlaps ==
    last.op = "translate_module_until_collision"
        => \A other \in ModuleIds \ {last.m} :
               get_modules_overlap_area(Circuit, last.m, other) = 0

\* C6: in every state the circuit reaches, a second
\* translate_module_until_collision(m, d) right after the first, with no
\* other module moved in between, translates by 0.
C6_TranslationIdempotent ==
    \A m \in ModuleIds : \A direction \in Directions :
        LET once == translate_module_until_collision(Circuit, m, direction)
        IN  translate_module_until_collision(once, m, direction) = once

\* C8: a call of to_local_optimum_placement returns.
C8_LocalSearchReturns ==
    last.op = "to_local_optimum_placement" => last.exc = "none"

\* The least of a non-empty sequence of values.
MinOf(values) == SetMin({values[i] : i \in 1..Len(values)})

\* C9: a call of to_optimal_placement returns with the circuit in the best
\* snapshot: its plain objective is the least of those measured after the
\* local-optimum passes of the call.
C9_BestSnapshot ==
    last.op = "to_optimal_placement"
        => /\ last.exc = "none"
           /\ Len(last.values) > 0
           /\ objective_func(Circuit, netlists) = MinOf(last.values)

\* C10: a call of to_local_optimum_placement returns with the circuit in a
\* local optimum of the augmented objective over the full move set: no
\* candidate action of any module gives a strictly lower value.
C10_LocalOptimum ==
    last.op = "to_local_optimum_placement"
        => /\ last.exc = "none"
           /\ \A m \in ModuleIds : \A c \in action_results(Circuit, m) :
                  ~(augmented_objective_func(c, netlists, penalties)
                        < augmented_objective_func(Circuit, netlists, penalties))

\* Two rectangles are disjoint or only touch along a boundary: on one axis,
\* one ends where or before the other starts.
DisjointOrTouching(a, b) ==
    \/ a.x + a.width <= b.x
    \/ b.x + b.width <= a.x
    \/ a.y + a.height <= b.y
    \/ b.y + b.height <= a.y

\* C11: the overlap area of two rectangles of non-negative sizes is the same
\* in both argument orders, is never negative, and is 0 when the rectangles
\* are disjoint or only touch along a boundary.
C11_OverlapSymmetry ==
    last.op = "get_modules_overlap_area"
        => LET module1 == last.values[1]
               module2 == last.values[2]
               area    == last.values[3]
           IN  /\ area = get_modules_overlap_area(Circuit, module2, module1)
               /\ area >= 0
               /\ DisjointOrTouching(modules[module1], modules[module2]) => area = 0

\* The overlap area was asked of two modules of positive sizes that touch
\* along a vertical boundary.
C11_Witness ==
    /\ last.op = "get_modules_overlap_area"
    /\ LET a == modules[last.values[1]]
           b == modules[last.values[2]]
       IN  /\ a.width > 0 /\ a.height > 0 /\ b.width > 0 /\ b.height > 0
           /\ a.x + a.width = b.x
           /\ a.y < b.y + b.height /\ b.y < a.y + a.height

\* The scenario: Circuit(10, 10), A = Module((0, 0), (2, 2)) and
\* B = Module((5, 5), (2, 2)), each with Pin(0, 0), one net over both pins.
Scenario ==
    [width |-> 10, height |-> 10,
     modules |-> <<[x |-> 0, y |-> 0, width |-> 2, height |-> 2],
                   [x |-> 5, y |-> 5, width |-> 2, height |-> 2]>>,
     pins |-> << <<[dx |-> 0, dy |-> 0]>>, <<[dx |-> 0, dy |-> 0]>> >>]

ScenarioNet == <<PinObject(1, 1), PinObject(2, 1)>>

\* The absolute start of pin object p of circuit c on each axis.
AbsoluteStart(c, p) ==
    [x |-> c.modules[p[2]].x + c.pins[p[2]][p[3]].dx,
     y |-> c.modules[p[2]].y + c.pins[p[2]][p[3]].dy]

\* C12: the bounding box of a net with at least one pin, the pins' modules
\* inside the region, is (greatest absolute pin end x - least absolute pin
\* start x) + the same on y, a pin ending 1 after its start; in the
\* scenario it is 12, the overlap area of A and B is 0 and the circuit is
\* feasible.
C12_BoundingBox ==
    /\ last.op = "_get_netlist_bounding_box"
           => LET net == netlists[last.values[1]]
                  xs  == {AbsoluteStart(Circuit, net[i]).x : i \in 1..Len(net)}
                  ys  == {AbsoluteStart(Circuit, net[i]).y : i \in 1..Len(net)}
              IN  Len(net) >= 1
                      => last.values[2] = ((SetMax(xs) + 1) - SetMin(xs))
                                              + ((SetMax(ys) + 1) - SetMin(ys))
    /\ _get_netlist_bounding_box(Scenario, ScenarioNet) = 12
    /\ get_modules_overlap_area(Scenario, 1, 2) = 0
    /\ is_feasible(Scenario)

\* The bounding box was asked of a net over the pins of two modules, the
\* pins at different absolute positions on both axes.
C12_Witness ==
    /\ last.op = "_get_netlist_bounding_box"
    /\ LET net == netlists[last.values[1]]
       IN  /\ Len(net) = 2
           /\ AbsoluteStart(Circuit, net[1]).x # AbsoluteStart(Circuit, net[2]).x
           /\ AbsoluteStart(Circuit, net[1]).y # AbsoluteStart(Circuit, net[2]).y

\* The module->pins and pin->module maps agree.
MapsAgree ==
    /\ \A o \in DOMAIN module_to_pins : \A k \in 1..Len(module_to_pins[o]) :
           /\ module_to_pins[o][k] \in DOMAIN pin_to_module
           /\ pin_to_module[module_to_pins[o][k]] = o
    /\ \A p \in DOMAIN pin_to_module :
           /\ pin_to_module[p] \in DOMAIN module_to_pins
           /\ \E k \in 1..Len(module_to_pins[pin_to_module[p]]) :
                  module_to_pins[pin_to_module[p]][k] = p

\* C13: after connect_module calls that each completed without a failed
\* precondition, the module->pins and pin->module maps agree and the module
\* list has as many entries as the module->pins map.
C13_MapsAgree ==
    last.exc = "none"
        => /\ MapsAgree
           /\ Len(module_list) = Cardinality(DOMAIN module_to_pins)

\* Module object o owns a pin of the net.
OwnsPinOf(o, net) ==
    \E i \in 1..Len(net) : \E k \in 1..Len(module_to_pins[o]) :
        module_to_pins[o][k] = net[i]

SharesNet(a, b) ==
    \E n \in 1..Len(netlists) : OwnsPinOf(a, netlists[n]) /\ OwnsPinOf(b, netlists[n])

\* C14: in a circuit whose maps agree, after any sequence of define_netlist
\* calls the connected-pairs set is symmetric, and it holds the pair of two
\* distinct modules, in both orders, exactly when they own pins of a common
\* net.
C14_ConnectedPairs ==
    (last.exc = "none" /\ MapsAgree /\ Len(module_list) = Cardinality(DOMAIN module_to_pins))
        => /\ \A pair \in connected_modules_pairs(netlists) :
                  <<pair[2], pair[1]>> \in connected_modules_pairs(netlists)
           /\ \A a \in DOMAIN module_to_pins : \A b \in DOMAIN module_to_pins :
                  a # b => (<<a, b>> \in connected_modules_pairs(netlists)
                               <=> SharesNet(a, b))

\* C16: no operation of the optimizer (objective_func,
\* augmented_objective_func, update_penalties, to_local_optimum_placement,
\* to_optimal_placement) changes the region, the module list, the
\* module->pins and pin->module maps, the pin list of a module, the net list
\* or the connected-pairs set.
C16_MembershipUnchanged ==
    [][/\ UNCHANGED <<region, module_list, module_to_pins, pin_to_module, netlists>>
       /\ connected_modules_pairs(netlists') = connected_modules_pairs(netlists)
       /\ DOMAIN modules' = DOMAIN modules
       /\ \A m \in ModuleIds : Len(pins'[m]) = Len(pins[m])]_vars

\* update_penalties has just raised the overlap counter of two overlapping
\* modules that have pins in a common net.
C16_Witness ==
    /\ last.op = "update_penalties"
    /\ Len(netlists) > 0
    /\ Len(netlists[1]) = 2
    /\ \E pair \in ModulePairs : penalties[pair].overlap > last.values[1][pair].overlap

\* Modules i and j have pins in a common net.
ShareNet(nets, i, j) ==
    \E n \in 1..Len(nets) :
        /\ \E a \in 1..Len(nets[n]) : nets[n][a][2] = i
        /\ \E b \in 1..Len(nets[n]) : nets[n][b][2] = j

\* The utilities of a pair as the penalty update is described.
StatedUtilities(c, nets, pen, pair) ==
    LET overlap_area == get_modules_overlap_area(c, pair[1], pair[2])
        area1 == c.modules[pair[1]].width * c.modules[pair[1]].height
        area2 == c.modules[pair[2]].width * c.modules[pair[2]].height
        gap   == get_modules_distance_per_axis(c, pair[1], pair[2])
        linked == ShareNet(nets, pair[1], pair[2])
    IN  [overlap |-> IF overlap_area > 0
                     THEN Quotient(overlap_area + area1 + area2, 1 + pen[pair].overlap)
                     ELSE Quotient(0, 1),
         connection_x |-> IF linked /\ gap.dx > 0
                          THEN Quotient(gap.dx, 1 + pen[pair].connection_x)
                          ELSE Quotient(0, 1),
         connection_y |-> IF linked /\ gap.dy > 0
                          THEN Quotient(gap.dy, 1 + pen[pair].connection_y)
                          ELSE Quotient(0, 1)]

StatedPenalties(c, nets, pen) ==
    LET all == {Quotient(0, 1)}
                   \cup UNION {{StatedUtilities(c, nets, pen, pair).overlap,
                                StatedUtilities(c, nets, pen, pair).connection_x,
                                StatedUtilities(c, nets, pen, pair).connection_y} :
                               pair \in ModulePairs}
        M == CHOOSE u \in all : \A v \in all : QuotientLeq(v, u)
        overlapping == \E pair \in ModulePairs :
                           get_modules_overlap_area(c, pair[1], pair[2]) > 0
        base(counter) == IF overlapping THEN counter ELSE 0
        after(counter, u) == IF QuotientEq(u, M) THEN base(counter) + 1 ELSE base(counter)
    IN  [pair \in ModulePairs |->
            LET u == StatedUtilities(c, nets, pen, pair)
            IN  [overlap |-> after(pen[pair].overlap, u.overlap),
                 connection_x |-> after(pen[pair].connection_x, u.connection_x),
                 connection_y |-> after(pen[pair].connection_y, u.connection_y)]]

\* C17: after update_penalties every counter of every pair is base + 1 when
\* the utility of its feature is the greatest utility and base otherwise,
\* the utility of a connection feature being gap / (1 + counter) for two
\* modules that share a net and have a positive gap on the axis, and base
\* being the counter before the call when some pair overlaps and 0 when none
\* does.
C17_UpdatePenalties ==
    last.op = "update_penalties"
        => penalties = StatedPenalties(Circuit, netlists, last.values[1])

\* The augmented objective as it is described, times 10 * num_modules.
StatedAugmentedObjective(c, nets, pen) ==
    LET pair_term(pair) ==
            LET overlap_area == get_modules_overlap_area(c, pair[1], pair[2])
                gap    == get_modules_distance_per_axis(c, pair[1], pair[2])
                linked == ShareNet(nets, pair[1], pair[2])
                c_o == IF overlap_area > 0 THEN pen[pair].overlap ELSE 0
                c_x == IF linked /\ gap.dx > 0 THEN pen[pair].connection_x ELSE 0
                c_y == IF linked /\ gap.dy > 0 THEN pen[pair].connection_y ELSE 0
            IN  10 * num_modules * overlap_area
                    + total_module_area(c) * (c_o + c_x + c_y)
    IN  10 * num_modules * get_bounding_boxes_total(c, nets)
            + SumFn([pair \in ModulePairs |-> pair_term(pair)])

\* Some pair shares a net and has a positive gap on an axis whose connection
\* counter is not 0.
PenalisedGap(c, nets, pen) ==
    \E pair \in ModulePairs :
        /\ ShareNet(nets, pair[1], pair[2])
        /\ \/ /\ get_modules_distance_per_axis(c, pair[1], pair[2]).dx > 0
              /\ pen[pair].connection_x > 0
           \/ /\ get_modules_distance_per_axis(c, pair[1], pair[2]).dy > 0
              /\ pen[pair].connection_y > 0

\* C18: the augmented objective is the sum of the net bounding boxes plus,
\* over every module pair, overlap_area + penalty_weight * (c_o + c_x + c_y),
\* c_x and c_y counting for two modules that share a net and have a positive
\* gap on the axis; with such a pair and a non-zero connection counter it is
\* strictly larger than the plain objective.
C18_AugmentedObjective ==
    last.op = "augmented_objective_func"
        => /\ last.values[1] = StatedAugmentedObjective(Circuit, netlists, penalties)
           /\ PenalisedGap(Circuit, netlists, penalties)
                  => last.values[1] > 10 * num_modules * objective_func(Circuit, netlists)

\* C21: in every state the circuit reaches, when no two modules overlap and
\* every module lies inside the region, no two modules overlap after
\* translate_module_until_collision(m, d), whatever m and d, also when m
\* touches another module on the side it moves toward.
C21_TranslationKeepsFeasible ==
    (is_feasible(Circuit) /\ \A m \in ModuleIds : module_in_region(modules[m]))
        => \A m \in ModuleIds : \A direction \in Directions :
               is_feasible(translate_module_until_collision(Circuit, m, direction))

\* The elementary steps rotate_module_cw completes on module m of c, done of
\* them so far and steps still to run, before one fails and the call rolls
\* back; -1 when none fails.
RECURSIVE StepsBeforeRollback(_, _, _, _)
StepsBeforeRollback(c, m, steps, done) ==
    IF steps = 0
    THEN -1
    ELSE IF rotation_step_fits(c.modules[m])
         THEN StepsBeforeRollback(rotate_step(c, m), m, steps - 1, done + 1)
         ELSE done

\* C23: in every state the circuit reaches, for a module inside the region,
\* an elementary step of rotate_module_cw fails only as the first step of a
\* call: a call by 180 or 270 is rolled back exactly when a call by 90 from
\* the same state is, and a rollback discards no completed step.
C23_OnlyFirstStepFails ==
    \A m \in ModuleIds :
        module_in_region(modules[m])
            => \A angle \in Angles :
                   LET failed == StepsBeforeRollback(Circuit, m, angle \div 90, 0)
                   IN  /\ failed \in {-1, 0}
                       /\ failed = 0 <=> StepsBeforeRollback(Circuit, m, 1, 0) = 0
                       /\ failed = 0 => rotate_module_cw(Circuit, m, angle) = Circuit
                       /\ failed = -1
                              => rotate_module_cw(Circuit, m, angle).modules[m].width
                                     = IF angle = 180
                                       THEN modules[m].width
                                       ELSE modules[m].height

\* rotate_module_cw was just called on a module that is not square, touches
\* the right edge of the region and can be rotated again.
C23_Witness ==
    /\ last.op = "rotate_module_cw"
    /\ modules[last.m].width # modules[last.m].height
    /\ modules[last.m].width > 0
    /\ modules[last.m].height > 0
    /\ modules[last.m].x + modules[last.m].width = RegionWidth
    /\ rotation_step_fits(modules[last.m])

====
